---- MODULE Spec2Model ----
(***************************************************************************)
(* render_sprite_sheet of tools/render_ball.py (the copies in              *)
(* render_from_blend.py and tweak_ball.py have the same body): render      *)
(* FRAME_COUNT frames into a temporary directory, load them back, copy     *)
(* them side by side into one sheet image, save it and clean up.           *)
(*                                                                         *)
(* An image is a record [w, h, px]: px is the flat RGBA sample list that   *)
(* list(img.pixels) returns, row-major, 4 samples per pixel.  Samples are  *)
(* 8-bit values; a path frame_NNN.png is the sequence of its digits.       *)
(***************************************************************************)
EXTENDS Integers, Sequences, FiniteSets, TLC

\* ---- bounds of the model ----
MaxFrames == 3
MaxDim == 2
MaxSeed == 2
MaxRuns == 2

VARIABLES
    FRAME_COUNT,   \* module constant FRAME_COUNT (25 in the source)
    scene,         \* bpy.context.scene: what the renderer yields for each frame
    pc,            \* position in render_sprite_sheet
    run,           \* how many times the script has been started
    error,         \* the exception that ended the run, "none" if none
    temp_dir,      \* TRUE while the directory made by mkdtemp exists
    temp_files,    \* files of the temporary directory: path -> image
    it,            \* position of the running for-loop in range(1, FRAME_COUNT + 1)
    bpy_images,    \* bpy.data.images: datablock id -> image
    first_frame,   \* id bound to first_frame, 0 while unbound
    frame_img,     \* id bound to frame_img, 0 while unbound
    sheet,         \* id bound to sheet, 0 while unbound
    width,         \* width local
    height,        \* height local
    sheet_pixels,  \* sheet_pixels local
    frame_pixels,  \* frame_pixels local
    out_dir,       \* TRUE when os.path.dirname(OUTPUT_FILE) exists
    OUTPUT_FILE,   \* the file at OUTPUT_FILE: <<>> when absent, else <<image>>
    rendered,      \* frame indices rendered in this run, in order
    copied,        \* frame indices copied into sheet_pixels in this run, in order
    saves          \* number of completed sheet.save() calls

vars == <<FRAME_COUNT, scene, pc, run, error, temp_dir, temp_files, it,
          bpy_images, first_frame, frame_img, sheet, width, height,
          sheet_pixels, frame_pixels, out_dir, OUTPUT_FILE, rendered,
          copied, saves>>

Min(a, b) == IF a < b THEN a ELSE b

\* ---- images ----

\* Rendered frame contents: a flat colour, or a ramp whose samples are all
\* different (and different from the samples of a generated image).
FrameSample(kind, seed, k) == IF kind = "flat" THEN 50 * seed ELSE 50 * seed + k

MkFrame(w, h, kind, seed) ==
    [w |-> w, h |-> h, px |-> [k \in 1..(4 * w * h) |-> FrameSample(kind, seed, k)]]

Dims == 1..MaxDim

FramesOfSize(w, h) ==
    {MkFrame(w, h, kind, seed) : kind \in {"flat", "ramp"}, seed \in 1..MaxSeed}

\* bpy.data.images.new(width, height, alpha=True): the generated buffer is
\* filled with the host's default colour (0, 0, 0, 1).
GeneratedSample(k) == IF k % 4 = 0 THEN 1 ELSE 0

NewImage(w, h) ==
    [w |-> w, h |-> h, px |-> [k \in 1..(4 * w * h) |-> GeneratedSample(k)]]

\* ---- paths ----

RECURSIVE Digits(_)
Digits(n) == IF n < 10 THEN <<n>> ELSE Digits(n \div 10) \o <<n % 10>>

RECURSIVE ZeroPad(_, _)
ZeroPad(s, n) == IF Len(s) >= n THEN s ELSE ZeroPad(<<0>> \o s, n)

\* mutant: the frame number is written without leading zeros
FramePathUnpadded(frame) == Digits(frame)

\* f"frame_{frame:03d}.png"
FramePath(frame) == ZeroPad(Digits(frame), 3)

\* "frame_001.png"
FirstFramePath == <<0, 0, 1>>

\* ---- python lists ----

\* s[a:b] for 0 <= a <= b
Slice(s, a, b) == SubSeq(s, Min(a, Len(s)) + 1, Min(b, Len(s)))

\* s[a:b] = v for 0 <= a <= b
SliceAssign(s, a, b, v) ==
    SubSeq(s, 1, Min(a, Len(s))) \o v \o SubSeq(s, Min(b, Len(s)) + 1, Len(s))

\* mutant: the loop runs from the last frame down to the first
FrameRangeReversed(n) == [i \in 1..n |-> n + 1 - i]

\* range(1, FRAME_COUNT + 1)
FrameRange(n) == [i \in 1..n |-> i]

\* ---- the copy loop body ----

\* mutant: the sheet is given the width of one frame
SheetWidthOneFrame(w, n) == w

SheetWidth(w, n) == w * n

\* mutant: the frame index is taken to count from 0
XOffsetFromZero(frame, w) == frame * w

XOffset(frame, w) == (frame - 1) * w

\* mutant: the frame buffer is read column by column
SrcIdxColumnMajor(x, y, w) == (x * w + y) * 4

SrcIdx(x, y, w) == (y * w + x) * 4

\* mutant: a sheet row is taken to be as long as a frame row
DstIdxFrameStride(x, y, w, n, x_offset) == (y * w + x_offset + x) * 4

\* mutant: the frame's column offset is left out
DstIdxNoOffset(x, y, w, n, x_offset) == (y * w * n + x) * 4

DstIdx(x, y, w, n, x_offset) == (y * w * n + x_offset + x) * 4

CopyPixel(sp, fp, x, y, w, n, x_offset) ==
    SliceAssign(sp, DstIdx(x, y, w, n, x_offset), DstIdx(x, y, w, n, x_offset) + 4,
                Slice(fp, SrcIdx(x, y, w), SrcIdx(x, y, w) + 4))

\* mutant: the loop over the columns stops one pixel early
RECURSIVE CopyRowSkipsLast(_, _, _, _, _, _, _)
CopyRowSkipsLast(sp, fp, x, y, w, n, x_offset) ==
    IF x >= w - 1 THEN sp
    ELSE CopyRowSkipsLast(CopyPixel(sp, fp, x, y, w, n, x_offset), fp, x + 1, y, w, n,
                          x_offset)

RECURSIVE CopyRow(_, _, _, _, _, _, _)
CopyRow(sp, fp, x, y, w, n, x_offset) ==
    IF x >= w THEN sp
    ELSE CopyRow(CopyPixel(sp, fp, x, y, w, n, x_offset), fp, x + 1, y, w, n, x_offset)

\* mutant: the loop over the rows stops one row early
RECURSIVE CopyRowsSkipsLast(_, _, _, _, _, _, _)
CopyRowsSkipsLast(sp, fp, y, w, h, n, x_offset) ==
    IF y >= h - 1 THEN sp
    ELSE CopyRowsSkipsLast(CopyRow(sp, fp, 0, y, w, n, x_offset), fp, y + 1, w, h, n,
                           x_offset)

RECURSIVE CopyRows(_, _, _, _, _, _, _)
CopyRows(sp, fp, y, w, h, n, x_offset) ==
    IF y >= h THEN sp
    ELSE CopyRows(CopyRow(sp, fp, 0, y, w, n, x_offset), fp, y + 1, w, h, n, x_offset)

CopyFrame(sp, fp, frame, w, h, n) == CopyRows(sp, fp, 0, w, h, n, XOffset(frame, w))

\* ---- bpy.data.images ----

NewId == CHOOSE i \in 1..(Cardinality(DOMAIN bpy_images) + 1) : i \notin DOMAIN bpy_images

AddImage(id, img) == [i \in DOMAIN bpy_images \cup {id} |-> IF i = id THEN img ELSE bpy_images[i]]

RemoveImage(id) == [i \in DOMAIN bpy_images \ {id} |-> bpy_images[i]]

NoImages == [i \in {} |-> NewImage(0, 0)]

NoFiles == [p \in {} |-> NewImage(0, 0)]

\* ---- initial states ----

Locals ==
    /\ pc = "mkdtemp"
    /\ error = "none"
    /\ temp_dir = FALSE
    /\ temp_files = NoFiles
    /\ it = 1
    /\ bpy_images = NoImages
    /\ first_frame = 0
    /\ frame_img = 0
    /\ sheet = 0
    /\ width = 0
    /\ height = 0
    /\ sheet_pixels = <<>>
    /\ frame_pixels = <<>>
    /\ rendered = <<>>
    /\ copied = <<>>

\* Every frame is rendered at the scene's resolution_x x resolution_y.
Init ==
    /\ FRAME_COUNT \in 0..MaxFrames
    /\ \E rx \in Dims, ry \in Dims : scene \in [1..FRAME_COUNT -> FramesOfSize(rx, ry)]
    /\ run = 1
    /\ out_dir \in BOOLEAN
    /\ OUTPUT_FILE = <<>>
    /\ saves = 0
    /\ Locals

\* The frame files come from a renderer that may yield frames of any size;
\* frame i is a ramp of its own, so that every sample tells where it is from.
InitAnyDims ==
    /\ FRAME_COUNT \in 0..MaxFrames
    /\ \E size \in [1..FRAME_COUNT -> Dims \X Dims] :
          scene = [i \in 1..FRAME_COUNT |-> MkFrame(size[i][1], size[i][2], "ramp", i)]
    /\ run = 1
    /\ out_dir \in BOOLEAN
    /\ OUTPUT_FILE = <<>>
    /\ saves = 0
    /\ Locals

\* ---- steps ----

Raise(e) ==
    /\ pc' = "failed"
    /\ error' = e

\* temp_dir = tempfile.mkdtemp()
MkDTemp ==
    /\ pc = "mkdtemp"
    /\ temp_dir' = TRUE
    /\ temp_files' = NoFiles
    /\ it' = 1
    /\ pc' = IF FRAME_COUNT >= 1 THEN "render" ELSE "load_first"
    /\ UNCHANGED <<FRAME_COUNT, scene, run, error, bpy_images, first_frame, frame_img,
                   sheet, width, height, sheet_pixels, frame_pixels, out_dir,
                   OUTPUT_FILE, rendered, copied, saves>>

\* one iteration of the render loop
RenderFrame ==
    /\ pc = "render"
    /\ LET frame == FrameRange(FRAME_COUNT)[it]
           path == FramePath(frame)
       IN /\ temp_files' = [p \in DOMAIN temp_files \cup {path} |->
                               IF p = path THEN scene[frame] ELSE temp_files[p]]
          /\ rendered' = Append(rendered, frame)
    /\ it' = IF it < FRAME_COUNT THEN it + 1 ELSE 1
    /\ pc' = IF it < FRAME_COUNT THEN "render" ELSE "load_first"
    /\ UNCHANGED <<FRAME_COUNT, scene, run, error, temp_dir, bpy_images, first_frame,
                   frame_img, sheet, width, height, sheet_pixels, frame_pixels,
                   out_dir, OUTPUT_FILE, copied, saves>>

\* bpy.ops.render.render raises
RenderFails ==
    /\ pc = "render"
    /\ Raise("render")
    /\ UNCHANGED <<FRAME_COUNT, scene, run, temp_dir, temp_files, it, bpy_images,
                   first_frame, frame_img, sheet, width, height, sheet_pixels,
                   frame_pixels, out_dir, OUTPUT_FILE, rendered, copied, saves>>

\* mutant: a missing file loads as an empty image instead of raising
LoadFirstLenient ==
    /\ pc = "load_first"
    /\ LET id == NewId
           img == IF FirstFramePath \in DOMAIN temp_files
                  THEN temp_files[FirstFramePath] ELSE NewImage(0, 0)
       IN /\ bpy_images' = AddImage(id, img)
          /\ first_frame' = id
          /\ width' = img.w
          /\ height' = img.h
    /\ pc' = "new_sheet"
    /\ UNCHANGED <<FRAME_COUNT, scene, run, error, temp_dir, temp_files, it, frame_img,
                   sheet, sheet_pixels, frame_pixels, out_dir, OUTPUT_FILE,
                   rendered, copied, saves>>

\* first_frame = bpy.data.images.load(.../frame_001.png); width, height
LoadFirst ==
    /\ pc = "load_first"
    /\ FirstFramePath \in DOMAIN temp_files
    /\ LET id == NewId
           img == temp_files[FirstFramePath]
       IN /\ bpy_images' = AddImage(id, img)
          /\ first_frame' = id
          /\ width' = img.w
          /\ height' = img.h
    /\ pc' = "new_sheet"
    /\ UNCHANGED <<FRAME_COUNT, scene, run, error, temp_dir, temp_files, it, frame_img,
                   sheet, sheet_pixels, frame_pixels, out_dir, OUTPUT_FILE,
                   rendered, copied, saves>>

\* the load raises: the file is missing or cannot be read
LoadFirstFails ==
    /\ pc = "load_first"
    /\ Raise("load")
    /\ UNCHANGED <<FRAME_COUNT, scene, run, temp_dir, temp_files, it, bpy_images,
                   first_frame, frame_img, sheet, width, height, sheet_pixels,
                   frame_pixels, out_dir, OUTPUT_FILE, rendered, copied, saves>>

\* sheet = bpy.data.images.new(...); sheet_pixels = list(sheet.pixels)
NewSheet ==
    /\ pc = "new_sheet"
    /\ LET id == NewId
           img == NewImage(SheetWidth(width, FRAME_COUNT), height)
       IN /\ bpy_images' = AddImage(id, img)
          /\ sheet' = id
          /\ sheet_pixels' = img.px
    /\ it' = 1
    /\ pc' = IF FRAME_COUNT >= 1 THEN "loop_load" ELSE "assign"
    /\ UNCHANGED <<FRAME_COUNT, scene, run, error, temp_dir, temp_files, first_frame,
                   frame_img, width, height, frame_pixels, out_dir, OUTPUT_FILE,
                   rendered, copied, saves>>

\* frame_img = bpy.data.images.load(frame_path); frame_pixels = list(frame_img.pixels)
LoadFrame ==
    /\ pc = "loop_load"
    /\ LET frame == FrameRange(FRAME_COUNT)[it]
           path == FramePath(frame)
           id == NewId
       IN /\ path \in DOMAIN temp_files
          /\ bpy_images' = AddImage(id, temp_files[path])
          /\ frame_img' = id
          /\ frame_pixels' = temp_files[path].px
    /\ pc' = "loop_copy"
    /\ UNCHANGED <<FRAME_COUNT, scene, run, error, temp_dir, temp_files, it, first_frame,
                   sheet, width, height, sheet_pixels, out_dir, OUTPUT_FILE,
                   rendered, copied, saves>>

\* mutant: the failure is reported and the loop goes on with the next frame
LoadFrameSkips ==
    /\ pc = "loop_load"
    /\ error' = "load"
    /\ it' = IF it < FRAME_COUNT THEN it + 1 ELSE 1
    /\ pc' = IF it < FRAME_COUNT THEN "loop_load" ELSE "assign"
    /\ UNCHANGED <<FRAME_COUNT, scene, run, temp_dir, temp_files, bpy_images,
                   first_frame, frame_img, sheet, width, height, sheet_pixels,
                   frame_pixels, out_dir, OUTPUT_FILE, rendered, copied, saves>>

\* the load inside the loop raises
LoadFrameFails ==
    /\ pc = "loop_load"
    /\ Raise("load")
    /\ UNCHANGED <<FRAME_COUNT, scene, run, temp_dir, temp_files, it, bpy_images,
                   first_frame, frame_img, sheet, width, height, sheet_pixels,
                   frame_pixels, out_dir, OUTPUT_FILE, rendered, copied, saves>>

\* the nested loops over y and x
CopyPixels ==
    /\ pc = "loop_copy"
    /\ LET frame == FrameRange(FRAME_COUNT)[it]
       IN /\ sheet_pixels' = CopyFrame(sheet_pixels, frame_pixels, frame, width, height,
                                       FRAME_COUNT)
          /\ copied' = Append(copied, frame)
    /\ pc' = "loop_remove"
    /\ UNCHANGED <<FRAME_COUNT, scene, run, error, temp_dir, temp_files, it, bpy_images,
                   first_frame, frame_img, sheet, width, height, frame_pixels,
                   out_dir, OUTPUT_FILE, rendered, saves>>

\* mutant: the frame image is not removed
RemoveFrameLeaks ==
    /\ pc = "loop_remove"
    /\ it' = IF it < FRAME_COUNT THEN it + 1 ELSE 1
    /\ pc' = IF it < FRAME_COUNT THEN "loop_load" ELSE "assign"
    /\ UNCHANGED <<FRAME_COUNT, scene, run, error, temp_dir, temp_files, bpy_images,
                   first_frame, frame_img, sheet, width, height, sheet_pixels,
                   frame_pixels, out_dir, OUTPUT_FILE, rendered, copied, saves>>

\* bpy.data.images.remove(frame_img)
RemoveFrame ==
    /\ pc = "loop_remove"
    /\ bpy_images' = RemoveImage(frame_img)
    /\ it' = IF it < FRAME_COUNT THEN it + 1 ELSE 1
    /\ pc' = IF it < FRAME_COUNT THEN "loop_load" ELSE "assign"
    /\ UNCHANGED <<FRAME_COUNT, scene, run, error, temp_dir, temp_files, first_frame,
                   frame_img, sheet, width, height, sheet_pixels, frame_pixels,
                   out_dir, OUTPUT_FILE, rendered, copied, saves>>

\* What sheet.pixels = sheet_pixels can do.  With the right number of samples
\* the buffer is replaced.  With another number the host either rejects the
\* assignment or fills the buffer from the list and, past its end, from
\* whatever follows it in memory.
AssignOutcomes(img, sp) ==
    IF Len(sp) = Len(img.px)
    THEN {[ok |-> TRUE, px |-> sp]}
    ELSE {[ok |-> FALSE, px |-> img.px]}
         \cup {[ok |-> TRUE,
                px |-> [k \in 1..Len(img.px) |-> IF k <= Len(sp) THEN sp[k] ELSE g]] :
               g \in {0, 255}}

\* sheet.pixels = sheet_pixels
AssignPixels ==
    /\ pc = "assign"
    /\ \E o \in AssignOutcomes(bpy_images[sheet], sheet_pixels) :
          /\ bpy_images' = [bpy_images EXCEPT ![sheet].px = o.px]
          /\ pc' = IF o.ok THEN "makedirs" ELSE "failed"
          /\ error' = IF o.ok THEN error ELSE "assign"
    /\ UNCHANGED <<FRAME_COUNT, scene, run, temp_dir, temp_files, it, first_frame,
                   frame_img, sheet, width, height, sheet_pixels, frame_pixels,
                   out_dir, OUTPUT_FILE, rendered, copied, saves>>

\* os.makedirs(os.path.dirname(OUTPUT_FILE), exist_ok=True)
MakeDirs ==
    /\ pc = "makedirs"
    /\ out_dir' = TRUE
    /\ pc' = "save"
    /\ UNCHANGED <<FRAME_COUNT, scene, run, error, temp_dir, temp_files, it, bpy_images,
                   first_frame, frame_img, sheet, width, height, sheet_pixels,
                   frame_pixels, OUTPUT_FILE, rendered, copied, saves>>

MakeDirsFails ==
    /\ pc = "makedirs"
    /\ ~out_dir
    /\ Raise("makedirs")
    /\ UNCHANGED <<FRAME_COUNT, scene, run, temp_dir, temp_files, it, bpy_images,
                   first_frame, frame_img, sheet, width, height, sheet_pixels,
                   frame_pixels, out_dir, OUTPUT_FILE, rendered, copied, saves>>

\* mutant: the samples are appended to a file that is already there
SaveSheetAppends ==
    /\ pc = "save"
    /\ OUTPUT_FILE' = IF OUTPUT_FILE = <<>> THEN <<bpy_images[sheet]>>
                      ELSE <<[OUTPUT_FILE[1] EXCEPT
                                !.px = OUTPUT_FILE[1].px \o bpy_images[sheet].px]>>
    /\ saves' = saves + 1
    /\ pc' = "remove_first"
    /\ UNCHANGED <<FRAME_COUNT, scene, run, error, temp_dir, temp_files, it, bpy_images,
                   first_frame, frame_img, sheet, width, height, sheet_pixels,
                   frame_pixels, out_dir, rendered, copied>>

\* sheet.filepath_raw = OUTPUT_FILE; sheet.file_format = 'PNG'; sheet.save()
SaveSheet ==
    /\ pc = "save"
    /\ OUTPUT_FILE' = <<bpy_images[sheet]>>
    /\ saves' = saves + 1
    /\ pc' = "remove_first"
    /\ UNCHANGED <<FRAME_COUNT, scene, run, error, temp_dir, temp_files, it, bpy_images,
                   first_frame, frame_img, sheet, width, height, sheet_pixels,
                   frame_pixels, out_dir, rendered, copied>>

SaveFails ==
    /\ pc = "save"
    /\ Raise("save")
    /\ UNCHANGED <<FRAME_COUNT, scene, run, temp_dir, temp_files, it, bpy_images,
                   first_frame, frame_img, sheet, width, height, sheet_pixels,
                   frame_pixels, out_dir, OUTPUT_FILE, rendered, copied, saves>>

\* mutant: the first frame is not removed
RemoveFirstForgets ==
    /\ pc = "remove_first"
    /\ pc' = "remove_sheet"
    /\ UNCHANGED <<FRAME_COUNT, scene, run, error, temp_dir, temp_files, it, bpy_images,
                   first_frame, frame_img, sheet, width, height, sheet_pixels,
                   frame_pixels, out_dir, OUTPUT_FILE, rendered, copied, saves>>

\* bpy.data.images.remove(first_frame)
RemoveFirst ==
    /\ pc = "remove_first"
    /\ bpy_images' = RemoveImage(first_frame)
    /\ pc' = "remove_sheet"
    /\ UNCHANGED <<FRAME_COUNT, scene, run, error, temp_dir, temp_files, it, first_frame,
                   frame_img, sheet, width, height, sheet_pixels, frame_pixels,
                   out_dir, OUTPUT_FILE, rendered, copied, saves>>

\* bpy.data.images.remove(sheet)
RemoveSheet ==
    /\ pc = "remove_sheet"
    /\ bpy_images' = RemoveImage(sheet)
    /\ pc' = "rmtree"
    /\ UNCHANGED <<FRAME_COUNT, scene, run, error, temp_dir, temp_files, it, first_frame,
                   frame_img, sheet, width, height, sheet_pixels, frame_pixels,
                   out_dir, OUTPUT_FILE, rendered, copied, saves>>

\* shutil.rmtree(temp_dir)
RmTree ==
    /\ pc = "rmtree"
    /\ temp_dir' = FALSE
    /\ temp_files' = NoFiles
    /\ pc' = "done"
    /\ UNCHANGED <<FRAME_COUNT, scene, run, error, it, bpy_images, first_frame,
                   frame_img, sheet, width, height, sheet_pixels, frame_pixels,
                   out_dir, OUTPUT_FILE, rendered, copied, saves>>

\* the script is started again on the same scene: main() calls render_sprite_sheet()
RunAgain ==
    /\ pc = "done"
    /\ run < MaxRuns
    /\ run' = run + 1
    /\ pc' = "mkdtemp"
    /\ it' = 1
    /\ first_frame' = 0
    /\ frame_img' = 0
    /\ sheet' = 0
    /\ width' = 0
    /\ height' = 0
    /\ sheet_pixels' = <<>>
    /\ frame_pixels' = <<>>
    /\ rendered' = <<>>
    /\ copied' = <<>>
    /\ UNCHANGED <<FRAME_COUNT, scene, error, temp_dir, temp_files, bpy_images,
                   out_dir, OUTPUT_FILE, saves>>

Next ==
    \/ MkDTemp
    \/ RenderFrame
    \/ RenderFails
    \/ LoadFirst
    \/ LoadFirstFails
    \/ NewSheet
    \/ LoadFrame
    \/ LoadFrameFails
    \/ CopyPixels
    \/ RemoveFrame
    \/ AssignPixels
    \/ MakeDirs
    \/ MakeDirsFails
    \/ SaveSheet
    \/ SaveFails
    \/ RemoveFirst
    \/ RemoveSheet
    \/ RmTree
    \/ RunAgain

Spec == Init /\ [][Next]_vars

SpecAnyDims == InitAnyDims /\ [][Next]_vars

TypeOK ==
    /\ FRAME_COUNT \in 0..MaxFrames
    /\ run \in 1..MaxRuns
    /\ error \in {"none", "render", "load", "assign", "makedirs", "save"}
    /\ temp_dir \in BOOLEAN
    /\ out_dir \in BOOLEAN
    /\ Len(OUTPUT_FILE) <= 1
    /\ saves \in 0..MaxRuns

\* ---- notions the properties are stated with ----

\* pixel (x, y) of an image: its 4 samples, located with the image's own width
Pixel(img, x, y) == SubSeq(img.px, (y * img.w + x) * 4 + 1, (y * img.w + x) * 4 + 4)

\* the frame sequence the run composites: frame i is what the renderer wrote
Frame(i) == scene[i]

FrameW == Frame(1).w

FrameH == Frame(1).h

\* sheet_pixels read as an image of the sheet's size
SheetBuffer == [w |-> FRAME_COUNT * FrameW, h |-> FrameH, px |-> sheet_pixels]

AllCopied == FRAME_COUNT >= 1 /\ Len(copied) = FRAME_COUNT

SheetAssigned ==
    /\ AllCopied
    /\ sheet \in DOMAIN bpy_images
    /\ pc \in {"makedirs", "save", "remove_first", "remove_sheet"}

SavedThisRun == saves = run

LoadedFrames == DOMAIN bpy_images \ {sheet}

InSeq(e, s) == \E j \in 1..Len(s) : s[j] = e

IsPrefix(s, t) == Len(s) <= Len(t) /\ s = SubSeq(t, 1, Len(s))

\* C1: once all frames are copied, the sheet pixel at ((i-1)*W + x, y) is
\* pixel (x, y) of frame i, all four samples, in the buffer and in the sheet
\* image after the assignment.
C1_SheetHoldsEveryFramePixel ==
    AllCopied =>
        \A i \in 1..FRAME_COUNT, x \in 0..(FrameW - 1), y \in 0..(FrameH - 1) :
            /\ Pixel(SheetBuffer, (i - 1) * FrameW + x, y) = Pixel(Frame(i), x, y)
            /\ SheetAssigned =>
                   Pixel(bpy_images[sheet], (i - 1) * FrameW + x, y) = Pixel(Frame(i), x, y)

C1_Witness ==
    /\ SheetAssigned
    /\ pc = "save"
    /\ FRAME_COUNT >= 2
    /\ FrameW >= 2
    /\ FrameH >= 2
    /\ Frame(2).px[1] # Frame(2).px[2]
    /\ Frame(1) # Frame(2)

\* C2: the sheet image is FRAME_COUNT*W wide and H high, W and H being the
\* first frame's, and the buffer it is saved with has FRAME_COUNT*W*H*4 samples.
C2_SheetDimensions ==
    /\ sheet \in DOMAIN bpy_images =>
          /\ FRAME_COUNT >= 1
          /\ width = FrameW
          /\ height = FrameH
          /\ bpy_images[sheet].w = FRAME_COUNT * FrameW
          /\ bpy_images[sheet].h = FrameH
          /\ Len(bpy_images[sheet].px) = FRAME_COUNT * FrameW * FrameH * 4
    /\ pc = "save" => Len(sheet_pixels) = FRAME_COUNT * FrameW * FrameH * 4
    /\ SavedThisRun =>
          /\ OUTPUT_FILE[1].w = FRAME_COUNT * FrameW
          /\ OUTPUT_FILE[1].h = FrameH
          /\ Len(OUTPUT_FILE[1].px) = FRAME_COUNT * FrameW * FrameH * 4

C2_Witness ==
    /\ SavedThisRun
    /\ FRAME_COUNT >= 2
    /\ FrameW >= 2
    /\ FrameW # FrameH

\* C3: when a frame load fails the run is over: nothing more is copied and
\* the sheet is not saved in this run.
C3_LoadFailureAborts ==
    /\ [](error = "load" => pc = "failed" /\ saves = run - 1)
    /\ [][error = "load" => UNCHANGED <<copied, sheet_pixels, OUTPUT_FILE, saves>>]_vars

C3_Witness ==
    /\ error = "load"
    /\ pc = "failed"
    /\ Len(copied) >= 1
    /\ Len(copied) < FRAME_COUNT

\* C4: with FRAME_COUNT = 0 the run fails at the load of the first frame:
\* the output directory is not created and no sheet is saved.
C4_EmptySequenceFailsFirst ==
    /\ [](FRAME_COUNT = 0 =>
            /\ pc \in {"mkdtemp", "load_first", "failed"}
            /\ pc = "failed" => error = "load"
            /\ sheet = 0
            /\ OUTPUT_FILE = <<>>
            /\ saves = 0)
    /\ [][FRAME_COUNT = 0 => out_dir' = out_dir]_vars

C4_Witness ==
    /\ FRAME_COUNT = 0
    /\ pc = "failed"
    /\ error = "load"
    /\ ~out_dir

\* C5: however the run ends, the temporary directory is gone.
C5_TempDirRemovedOnEveryExit == pc \in {"done", "failed"} => ~temp_dir

C7_AtMostOneFrameLoaded == Cardinality(LoadedFrames) <= 1

\* C7 amended: the loop's frame image is loaded only from its load to its
\* removal right after the copy; besides it only first_frame is loaded, so
\* there are never more than two frame images.
C7_AtMostFirstAndCurrentFrame ==
    /\ Cardinality(LoadedFrames) <= 2
    /\ LoadedFrames \subseteq {first_frame, frame_img}
    /\ frame_img \in DOMAIN bpy_images => pc \in {"loop_copy", "loop_remove"}
    /\ pc \in {"loop_copy", "loop_remove"} => frame_img \in DOMAIN bpy_images
    /\ pc \in {"loop_load", "assign", "makedirs", "save"} => LoadedFrames = {first_frame}

C7_Witness ==
    /\ pc = "loop_copy"
    /\ it >= 2
    /\ Cardinality(LoadedFrames) = 2

\* C8 as stated: frame i is rendered and copied before frame i+1 is rendered
\* or copied.
C8_FrameDoneBeforeNextStarts ==
    \A i \in 1..(FRAME_COUNT - 1) :
        (InSeq(i + 1, rendered) \/ InSeq(i + 1, copied)) =>
            (InSeq(i, rendered) /\ InSeq(i, copied))

\* C8 amended: frames are rendered in increasing index order, then, after
\* the last render, copied in increasing index order; the j-th frame copied
\* lies in the j-th region of the sheet from the left.
C8_RenderThenCopyInIndexOrder ==
    /\ IsPrefix(rendered, [i \in 1..FRAME_COUNT |-> i])
    /\ IsPrefix(copied, [i \in 1..FRAME_COUNT |-> i])
    /\ copied # <<>> => Len(rendered) = FRAME_COUNT
    /\ pc \in {"load_first", "new_sheet"} => Len(rendered) = FRAME_COUNT
    /\ copied # <<>> =>
         \A j \in 1..Len(copied), x \in 0..(FrameW - 1), y \in 0..(FrameH - 1) :
           Pixel(SheetBuffer, (j - 1) * FrameW + x, y) = Pixel(Frame(copied[j]), x, y)

C8_Witness ==
    /\ FRAME_COUNT >= 2
    /\ Len(copied) = FRAME_COUNT
    /\ Frame(1) # Frame(2)

\* C9: the sheet is saved once per run, after all frames are copied and the
\* buffer is assigned to it; it does not change after the save; at the end
\* of a successful run no image is left loaded.
C9_SheetLifecycle ==
    /\ [](/\ saves <= run
          /\ sheet \in DOMAIN bpy_images => Cardinality(DOMAIN bpy_images) <= 3
          /\ pc = "save" =>
                /\ copied = [i \in 1..FRAME_COUNT |-> i]
                /\ FRAME_COUNT >= 1
                /\ bpy_images[sheet].px = sheet_pixels
          /\ SavedThisRun =>
                /\ copied = [i \in 1..FRAME_COUNT |-> i]
                /\ OUTPUT_FILE[1].px = sheet_pixels
                /\ pc \in {"remove_first", "remove_sheet", "rmtree", "done"}
          /\ pc = "done" => SavedThisRun /\ DOMAIN bpy_images = {})
    /\ [][SavedThisRun /\ run' = run =>
            /\ UNCHANGED <<sheet_pixels, OUTPUT_FILE, saves, copied>>
            /\ sheet \in DOMAIN bpy_images' => bpy_images'[sheet] = bpy_images[sheet]]_vars

C9_Witness ==
    /\ pc = "done"
    /\ SavedThisRun
    /\ FRAME_COUNT >= 2

\* ---- frames of other sizes than the first frame's ----

HasPixel(img, x, y) == x < img.w /\ y < img.h

Mismatched(i) == Frame(i).w # FrameW \/ Frame(i).h # FrameH

AllSamplesDiffer(img) ==
    \A k1 \in 1..Len(img.px), k2 \in 1..Len(img.px) : k1 # k2 => img.px[k1] # img.px[k2]

\* the region of frame i in the saved sheet does not hold frame i's pixels
RegionCorrupted(i) ==
    \E x \in 0..(FrameW - 1), y \in 0..(FrameH - 1) :
        \/ ~HasPixel(Frame(i), x, y)
        \/ Pixel(OUTPUT_FILE[1], (i - 1) * FrameW + x, y) # Pixel(Frame(i), x, y)

\* every frame buffer has a sample for every index the copy loop reads
AllFramesCoverFirst ==
    \A i \in 1..FRAME_COUNT : Len(Frame(i).px) >= 4 * FrameW * FrameH

\* the 4 samples the copy loop reads for (x, y): located with the first
\* frame's width, whatever the width of the frame
StrideRead(img, x, y) == SubSeq(img.px, (y * FrameW + x) * 4 + 1, (y * FrameW + x) * 4 + 4)

ColumnOf(k) == ((k - 1) \div 4) % (FRAME_COUNT * FrameW)

\* the columns of frame i
Region(i) == ((i - 1) * FrameW)..(i * FrameW - 1)

\* the step that copies a frame
CopyStep == pc = "loop_copy" /\ pc' = "loop_remove"

\* C11: copying frame i changes only samples in the columns [(i-1)*W, i*W)
\* and gives them frame i's samples; every sample of another frame's
\* columns is left as it was, and the buffer keeps its length.
C11_CopyStaysInOwnColumns ==
    [][CopyStep =>
        LET i == copied'[Len(copied')]
        IN /\ Len(sheet_pixels') = Len(sheet_pixels)
           /\ \A k \in 1..Len(sheet_pixels) :
                 ColumnOf(k) \notin Region(i) => sheet_pixels'[k] = sheet_pixels[k]
           /\ \A j \in 1..Len(copied), x \in 0..(FrameW - 1), y \in 0..(FrameH - 1) :
                 Pixel([w |-> FRAME_COUNT * FrameW, h |-> FrameH, px |-> sheet_pixels'],
                       (copied[j] - 1) * FrameW + x, y) = Pixel(Frame(copied[j]), x, y)]_vars

C11_Witness ==
    /\ pc = "loop_remove"
    /\ Len(copied) >= 2
    /\ FrameW >= 2
    /\ FrameH >= 2
    /\ Frame(1) # Frame(2)
    /\ Pixel(SheetBuffer, 0, 1) = Pixel(Frame(1), 0, 1)

\* ---- how the buffer is filled ----

\* the sheet buffer as list(sheet.pixels) returned it: nothing copied yet
BufferFresh == pc = "loop_load" /\ copied = <<>>

\* the copy loop has just ended
LoopEnded == pc = "assign" /\ AllCopied

\* the samples (counted from 1) that the copies made so far have assigned
WriteTargets ==
    {DstIdx(x, y, width, FRAME_COUNT, XOffset(copied[j], width)) + c :
        j \in 1..Len(copied), x \in 0..(width - 1), y \in 0..(height - 1), c \in 1..4}

\* the number of sample assignments made so far
WriteCount == Len(copied) * width * height * 4

\* the frame sample that belongs at sample k of the sheet buffer
SourceOf(k) ==
    LET col == ColumnOf(k)
        row == ((k - 1) \div 4) \div (FRAME_COUNT * FrameW)
        i == col \div FrameW + 1
    IN Frame(i).px[(row * FrameW + (col % FrameW)) * 4 + ((k - 1) % 4) + 1]

RowCopyRow(sp, fp, i, y, w, n) ==
    SliceAssign(sp, (y * w * n + (i - 1) * w) * 4, (y * w * n + (i - 1) * w) * 4 + w * 4,
                Slice(fp, y * w * 4, y * w * 4 + w * 4))

RECURSIVE RowCopyRows(_, _, _, _, _, _, _)
RowCopyRows(sp, fp, i, y, w, h, n) ==
    IF y >= h THEN sp
    ELSE RowCopyRows(RowCopyRow(sp, fp, i, y, w, n), fp, i, y + 1, w, h, n)

RowCopyFrame(sp, fp, i, w, h, n) == RowCopyRows(sp, fp, i, 0, w, h, n)

\* the buffer after frames 1..i are copied by rows into the fresh buffer
RECURSIVE RowCopyUpTo(_)
RowCopyUpTo(i) ==
    IF i = 0 THEN [k \in 1..(FRAME_COUNT * FrameW * FrameH * 4) |-> IF k % 4 = 0 THEN 1 ELSE 0]
    ELSE RowCopyFrame(RowCopyUpTo(i - 1), Frame(i).px, i, FrameW, FrameH, FRAME_COUNT)

\* C13: each copy step of the loop yields the buffer that the copy of the
\* frame by whole rows yields, and at the end of the loop the buffer is the
\* one that copying frames 1..N by rows builds.
C13_PixelCopyEqualsRowCopy ==
    /\ [][CopyStep =>
            sheet_pixels' = RowCopyFrame(sheet_pixels, frame_pixels, copied'[Len(copied')],
                                         FrameW, FrameH, FRAME_COUNT)]_vars
    /\ [](LoopEnded => sheet_pixels = RowCopyUpTo(FRAME_COUNT))

C13_Witness ==
    /\ LoopEnded
    /\ FRAME_COUNT >= 2
    /\ FrameW >= 2
    /\ FrameH >= 2
    /\ Frame(2).px[1] # Frame(2).px[5]

\* ---- indices of the copy loop ----

\* C15: for every frame, row and column, src_idx + 4 is within the frame
\* buffer of 4*W*H samples and dst_idx + 4 within the sheet buffer of
\* 4*N*W*H samples, so a slice assignment puts 4 samples in the place of 4
\* and the sheet buffer keeps its length through the loop.
C15_CopyIndicesInBounds ==
    /\ pc \in {"loop_load", "loop_copy", "loop_remove", "assign"} =>
          Len(sheet_pixels) = 4 * FRAME_COUNT * FrameW * FrameH
    /\ pc = "loop_copy" =>
          /\ Len(frame_pixels) = 4 * FrameW * FrameH
          /\ \A frame \in 1..FRAME_COUNT, x \in 0..(width - 1), y \in 0..(height - 1) :
                LET src_idx == SrcIdx(x, y, width)
                    dst_idx == DstIdx(x, y, width, FRAME_COUNT, XOffset(frame, width))
                IN /\ src_idx >= 0
                   /\ src_idx + 4 <= 4 * FrameW * FrameH
                   /\ dst_idx >= 0
                   /\ dst_idx + 4 <= 4 * FRAME_COUNT * FrameW * FrameH
                   /\ Len(Slice(frame_pixels, src_idx, src_idx + 4)) = 4
                   /\ Len(Slice(sheet_pixels, dst_idx, dst_idx + 4)) = 4
                   /\ Len(CopyPixel(sheet_pixels, frame_pixels, x, y, width, FRAME_COUNT,
                                    XOffset(frame, width))) = Len(sheet_pixels)

C15_Witness ==
    /\ pc = "loop_copy"
    /\ FRAME_COUNT >= 2
    /\ it = FRAME_COUNT
    /\ width >= 2
    /\ height >= 2

\* ---- the frame files ----

LoadFirstStep == pc = "load_first" /\ pc' = "new_sheet"

LoadFrameStep == pc = "loop_load" /\ pc' = "loop_copy"

\* C16: the files of the temporary directory are the frames rendered so
\* far, frame i at frame_<i in 3 digits>.png; all N frames are rendered
\* before anything is loaded; the first-frame load reads the file of frame
\* 1 and the load of loop iteration i reads the file of frame i.
C16_LoadsReadRenderedFiles ==
    /\ [](temp_dir =>
            /\ DOMAIN temp_files = {FramePath(rendered[j]) : j \in 1..Len(rendered)}
            /\ \A j \in 1..Len(rendered) :
                  /\ Len(FramePath(rendered[j])) = 3
                  /\ temp_files[FramePath(rendered[j])] = Frame(rendered[j])
            /\ rendered # <<>> => FirstFramePath \in DOMAIN temp_files)
    /\ [](pc \in {"load_first", "new_sheet", "loop_load", "loop_copy", "loop_remove"} =>
            rendered = [i \in 1..FRAME_COUNT |-> i])
    /\ [][LoadFirstStep =>
            /\ InSeq(1, rendered)
            /\ FirstFramePath = FramePath(1)
            /\ bpy_images'[first_frame'] = Frame(1)]_vars
    /\ [][LoadFrameStep =>
            /\ InSeq(Len(copied) + 1, rendered)
            /\ FramePath(Len(copied) + 1) \in DOMAIN temp_files
            /\ bpy_images'[frame_img'] = Frame(Len(copied) + 1)
            /\ frame_pixels' = Frame(Len(copied) + 1).px]_vars

C16_Witness ==
    /\ pc = "loop_copy"
    /\ it >= 2
    /\ Frame(1) # Frame(2)
    /\ frame_pixels = Frame(2).px
====
